---- MODULE Spec2Model ----
(***************************************************************************)
(* Model of RemoveAnythingVideo (src/remove_anything_video.py): the        *)
(* pipeline controller `forward`, the segmentor adapter                    *)
(* `forward_segmentor`, the tracker adapter `forward_tracker` and the      *)
(* mask selection policy `mask_selection`.                                 *)
(*                                                                         *)
(* Conventions.  A Python list is a TLA+ sequence; the Python index i is   *)
(* position i + 1.  An optional value is <<>> (None) or <<v>>.  A frame    *)
(* is identified by the index of its path in frame_ps.  A mask is a        *)
(* single-row raster of MaskW pixels.  A box is a 4-tuple.                 *)
(***************************************************************************)
EXTENDS Integers, Sequences, FiniteSets

\* ---------------------------------------------------------------- bounds
MaxFrames == 3
MaskW == 2
NumCand == 2

None == << >>
Some(x) == << x >>

\* the values the caller may pass for key_frame_idx
KeyFrameIdxSet == {0, 1}
\* the values the caller may pass for key_frame_mask_idx: None, a valid
\* index from either end, or one past the last candidate
KeyFrameMaskIdxSet == {None} \cup {Some(k) : k \in {-1, 0, NumCand - 1, NumCand}}
\* the values the caller may pass for dilate_kernel_size
DilateKernelSizeSet == {None, Some(-1), Some(0), Some(2)}
\* the tracked box may move right by this many pixels per frame
DriftSet == {0, 1}
\* the confidence scores the segmentor may report
ScoreSet == {1, 2}

Pixels == 1..MaskW
CandIdx == 1..NumCand

\* ----------------------------------------------------------- raster data
\* the boolean masks SamPredictor.predict returns (return_logits = False)
BoolMasks == [Pixels -> BOOLEAN]
EmptyBool == [p \in Pixels |-> FALSE]
\* the boolean masks the segmentor is taken to return in the pipeline runs
PaletteBool == {EmptyBool,
                [p \in Pixels |-> p = 1],
                [p \in Pixels |-> p > 1]}
\* 8-bit masks with values 0 or 255
ByteMasks == [Pixels -> {0, 255}]

\* (mask * 255).astype(np.uint8) on one boolean mask
Unbinarized(m) == [p \in DOMAIN m |-> IF m[p] THEN 1 ELSE 0]
Binarize(m) == [p \in DOMAIN m |-> (IF m[p] THEN 255 ELSE 0) % 256]

\* (masks * 255).astype(np.uint8) on the whole candidate batch
BinarizeAll(ms) == [j \in DOMAIN ms |-> Binarize(ms[j])]

Max2(a, b) == IF a >= b THEN a ELSE b

RECURSIVE MaxOver(_, _)
MaxOver(m, S) ==
    IF S = {} THEN 0
    ELSE LET p == CHOOSE q \in S : TRUE
         IN  Max2(m[p], MaxOver(m, S \ {p}))

\* utils.dilate_mask for a kernel size k > 0: cv2.dilate with a k x k kernel
\* of ones anchored at its centre, one iteration
Dilate(m, k) ==
    [p \in DOMAIN m |->
        MaxOver(m, {q \in DOMAIN m : q - p >= 0 - (k \div 2)
                                     /\ q - p <= k - 1 - (k \div 2)})]

\* what a call dilate_mask(m, k) may do: None when it raises, else the mask
\* it returns.  For k <= 0 the outcome is left open: an exception, the mask
\* unchanged, or the mask dilated by a default 3 x 3 kernel.
DilateOutcomes(m, k) ==
    IF k > 0 THEN {Some(Dilate(m, k))}
    ELSE {None} \cup {Some(Dilate(m, j)) : j \in {1, 3}}

\* ------------------------------------------------------------------ boxes
NoBox == << >>
Fg(m) == {p \in DOMAIN m : m[p] # 0}
MinOf(S) == CHOOSE x \in S : \A y \in S : x <= y
MaxOf(S) == CHOOSE x \in S : \A y \in S : x >= y

\* get_box_from_mask: cv2.boundingRect of the non-zero pixels, as (x, y, w, h)
get_box_from_mask(m) ==
    IF Fg(m) = {} THEN <<0, 0, 0, 0>>
    ELSE <<MinOf(Fg(m)) - 1, 0, MaxOf(Fg(m)) - MinOf(Fg(m)) + 1, 1>>

\* XYWH -> XYXY
SamBoxKeepsXYWH(box) == box
SamBox(box) == <<box[1], box[2], box[1] + box[3], box[2] + box[4]>>

Shift(box, d) == <<box[1] + d, box[2], box[3], box[4]>>

\* get_box_using_ostrack: one box per frame, the first one the initial box
TrackerOutputs(n, init_box) ==
    {[j \in 1..n |-> Shift(init_box, d * (j - 1))] : d \in DriftSet}

\* ------------------------------------------------------- mask selection
\* np.argmin / np.argmax: scan left to right, keep the first best (0-based)
RECURSIVE ArgScan(_, _, _, _)
ArgScan(v, j, best, wantMin) ==
    IF j > Len(v) THEN best - 1
    ELSE ArgScan(v, j + 1,
                 IF (wantMin /\ v[j] < v[best]) \/ (~wantMin /\ v[j] > v[best])
                 THEN j ELSE best,
                 wantMin)

RECURSIVE ArgScanLast(_, _, _, _)
ArgScanLast(v, j, best, wantMin) ==
    IF j > Len(v) THEN best - 1
    ELSE ArgScanLast(v, j + 1,
                 IF (wantMin /\ v[j] <= v[best]) \/ (~wantMin /\ v[j] >= v[best])
                 THEN j ELSE best,
                 wantMin)

argminLast(v) == ArgScanLast(v, 2, 1, TRUE)
argmin(v) == ArgScan(v, 2, 1, TRUE)
argmax(v) == ArgScan(v, 2, 1, FALSE)

RECURSIVE SumSq(_, _, _)
SumSq(a, b, S) ==
    IF S = {} THEN 0
    ELSE LET p == CHOOSE q \in S : TRUE
         IN  (a[p] - b[p]) * (a[p] - b[p]) + SumSq(a, b, S \ {p})

\* np.mean((masks.astype(int32) - ref_mask.astype(int32))**2, axis=(-2,-1)),
\* each entry scaled by the common pixel count so that it stays an integer
mse(masks, ref_mask) ==
    [j \in DOMAIN masks |-> SumSq(masks[j], ref_mask, DOMAIN ref_mask)]

\* mask_selection with interactive = False
mask_selection(masks, scores, ref_mask) ==
    IF ref_mask # None
    THEN masks[argmin(mse(masks, ref_mask)) + 1]
    ELSE masks[argmax(scores) + 1]

\* Python sequence indexing seq[idx]: is idx accepted, and which position
IndexOk(len, idx) == idx >= 0 - len /\ idx < len
PyPos(len, idx) == IF idx >= 0 THEN idx + 1 ELSE len + idx + 1

\* ------------------------------------------------------------------ state
VARIABLES
    pc,                  \* position in forward / mask_selection
    err,                 \* the exception that ended the call, or None
    frame_ps,            \* argument: the frame paths
    key_frame_idx,       \* argument
    key_frame_mask_idx,  \* argument, optional
    dilate_kernel_size,  \* argument, optional
    image,               \* the image the segmentor holds, or None
    frame,               \* local: the frame being segmented
    prompt,              \* arguments of the running forward_segmentor call
    masks, scores,       \* what predict returned, until it is consumed
    key_mask, key_box,   \* locals of forward
    all_box, all_mask, all_frame, ref_mask,
    it,                  \* number of frames the loop has taken from the zip
    calls,               \* log: loads and adapter calls, in order
    selLog,              \* log: the mask_selection calls of forward
    dilLog,              \* log: the dilate_mask calls of forward
    made,                \* log: the mask kept for each frame, as it is kept
    result,              \* what forward returned, or None
    interactive,         \* argument of a direct mask_selection call
    selected             \* what a direct mask_selection call returned

vars == <<pc, err, frame_ps, key_frame_idx, key_frame_mask_idx,
          dilate_kernel_size, image, frame, prompt, masks, scores, key_mask,
          key_box, all_box, all_mask, all_frame, ref_mask, it, calls, selLog,
          dilLog, made, result, interactive, selected>>

args == <<frame_ps, key_frame_idx, key_frame_mask_idx, dilate_kernel_size,
          interactive, selected>>

Call(op, f, box, points, paths) ==
    [op |-> op, frame |-> f, box |-> box, points |-> points, paths |-> paths]

\* the segmentor's answers in the pipeline runs: NumCand boolean masks with
\* one score each
SegOutputs ==
    [masks : [CandIdx -> PaletteBool],
     scores : {[j \in CandIdx |-> 1],
               [j \in CandIdx |-> IF j = 1 THEN 1 ELSE 2],
               [j \in CandIdx |-> IF j = NumCand THEN 1 ELSE 2]}]

\* ------------------------------------------------- pieces of forward
\* line 137: assert key_frame_idx == 0
KeyFrameAny(kfi) == TRUE
KeyFrameOk(kfi) == kfi = 0

\* lines 148 and 179: if dilate_kernel_size is not None
DilationIfPositive(dks) == dks # None /\ dks[1] > 0
DilationEnabled(dks) == dks # None

\* lines 143-146: the key-frame candidate
KeyCandidateScored(ms, sc, kmi) == mask_selection(ms, sc, None)
KeyCandidate(ms, sc, kmi) ==
    IF kmi # None THEN ms[PyPos(Len(ms), kmi[1])]
    ELSE mask_selection(ms, sc, None)

\* line 183: ref_mask = mask
KeepRef(mask, ref) == ref
NextRef(mask, ref) == mask

\* line 86: self.segmentor.reset_image()
ImageKept(img) == img
ImageAfterReset(img) == None

\* lines 184-185: list.append
Prepend(list, x) == <<x>> \o list
Accumulate(list, x) == Append(list, x)

\* frame_ps[1:] zipped with all_box[1:]: is there an item number k (k >= 1)
ZipHas(k) == k < Len(frame_ps) /\ k < Len(all_box)

Init ==
    /\ pc = "start"
    /\ err = None
    /\ \E n \in 1..MaxFrames : frame_ps = [j \in 1..n |-> j - 1]
    /\ key_frame_idx \in KeyFrameIdxSet
    /\ key_frame_mask_idx \in KeyFrameMaskIdxSet
    /\ dilate_kernel_size \in DilateKernelSizeSet
    /\ image = None
    /\ frame = None
    /\ prompt = None
    /\ masks = << >> /\ scores = << >>
    /\ key_mask = None /\ key_box = NoBox
    /\ all_box = << >> /\ all_mask = << >> /\ all_frame = << >>
    /\ ref_mask = None
    /\ it = 0
    /\ calls = << >> /\ selLog = << >> /\ dilLog = << >> /\ made = << >>
    /\ result = None
    /\ interactive = FALSE
    /\ selected = None

\* line 137, the assertion fails
AssertFails ==
    /\ pc = "start"
    /\ ~KeyFrameOk(key_frame_idx)
    /\ pc' = "failed"
    /\ err' = Some("AssertionError")
    /\ UNCHANGED <<args, image, frame, prompt, masks, scores, key_mask,
                   key_box, all_box, all_mask, all_frame, ref_mask, it,
                   calls, selLog, dilLog, made, result>>

\* lines 137-141: the assertion holds, the key frame is loaded and
\* forward_segmentor is entered with the point prompt
LoadKeyFrame ==
    /\ pc = "start"
    /\ KeyFrameOk(key_frame_idx)
    /\ IndexOk(Len(frame_ps), key_frame_idx)
    /\ frame' = Some(frame_ps[PyPos(Len(frame_ps), key_frame_idx)])
    /\ prompt' = Some([points |-> TRUE, box |-> NoBox])
    /\ calls' = Append(calls, Call("load", frame', NoBox, FALSE, << >>))
    /\ pc' = "set_image"
    /\ UNCHANGED <<args, err, image, masks, scores, key_mask, key_box,
                   all_box, all_mask, all_frame, ref_mask, it, selLog,
                   dilLog, made, result>>

\* line 76: self.segmentor.set_image(img)
SetImage ==
    /\ pc = "set_image"
    /\ image' = frame
    /\ calls' = Append(calls, Call("set_image", frame, NoBox, FALSE, << >>))
    /\ pc' = "predict"
    /\ UNCHANGED <<args, err, frame, prompt, masks, scores, key_mask, key_box,
                   all_box, all_mask, all_frame, ref_mask, it, selLog,
                   dilLog, made, result>>

\* lines 78-85: self.segmentor.predict(...) returns
Predict ==
    /\ pc = "predict"
    /\ \E out \in SegOutputs :
          /\ masks' = out.masks
          /\ scores' = out.scores
    /\ calls' = Append(calls, Call("predict", frame, prompt[1].box,
                                   prompt[1].points, << >>))
    /\ pc' = "reset_image"
    /\ UNCHANGED <<args, err, image, frame, prompt, key_mask, key_box,
                   all_box, all_mask, all_frame, ref_mask, it, selLog,
                   dilLog, made, result>>

\* lines 78-85: self.segmentor.predict(...) raises; nothing catches it
PredictRaises ==
    /\ pc = "predict"
    /\ calls' = Append(calls, Call("predict", frame, prompt[1].box,
                                   prompt[1].points, << >>))
    /\ pc' = "failed"
    /\ err' = Some("PredictError")
    /\ UNCHANGED <<args, image, frame, prompt, masks, scores, key_mask,
                   key_box, all_box, all_mask, all_frame, ref_mask, it,
                   selLog, dilLog, made, result>>

\* lines 86-87: self.segmentor.reset_image(); return masks, scores
ResetImage ==
    /\ pc = "reset_image"
    /\ image' = ImageAfterReset(image)
    /\ calls' = Append(calls, Call("reset_image", frame, NoBox, FALSE, << >>))
    /\ pc' = IF prompt[1].points THEN "key_select" ELSE "select"
    /\ prompt' = None
    /\ UNCHANGED <<args, err, frame, masks, scores, key_mask, key_box,
                   all_box, all_mask, all_frame, ref_mask, it, selLog,
                   dilLog, made, result>>

\* lines 148-149 and 179-180: the mask kept for a frame, None when
\* dilate_mask raises
StoredOutcomes(m, dks) ==
    IF DilationEnabled(dks) THEN DilateOutcomes(m, dks[1]) ELSE {Some(m)}

DilLogAfter(f) ==
    IF DilationEnabled(dilate_kernel_size) THEN Append(dilLog, f) ELSE dilLog

\* line 144 with an index outside the candidate batch: IndexError
KeySelectIndexError ==
    /\ pc = "key_select"
    /\ key_frame_mask_idx # None
    /\ ~IndexOk(Len(masks), key_frame_mask_idx[1])
    /\ pc' = "failed"
    /\ err' = Some("IndexError")
    /\ UNCHANGED <<args, image, frame, prompt, masks, scores, key_mask,
                   key_box, all_box, all_mask, all_frame, ref_mask, it,
                   calls, selLog, dilLog, made, result>>

\* lines 142-154: key-frame mask selection, binarization, dilation, box
KeySelect ==
    /\ pc = "key_select"
    /\ key_frame_mask_idx # None => IndexOk(Len(masks), key_frame_mask_idx[1])
    /\ selLog' = IF key_frame_mask_idx # None THEN selLog
                 ELSE Append(selLog, [frame |-> frame[1], ref |-> None])
    /\ dilLog' = DilLogAfter(frame[1])
    /\ LET cand == KeyCandidate(masks, scores, key_frame_mask_idx)
       IN  \E o \in StoredOutcomes(Binarize(cand), dilate_kernel_size) :
              IF o = None
              THEN /\ pc' = "failed"
                   /\ err' = Some("DilateError")
                   /\ UNCHANGED <<key_mask, key_box, masks, scores, made>>
              ELSE /\ key_mask' = o[1]
                   /\ made' = Append(made, [frame |-> frame[1], mask |-> o[1]])
                   /\ key_box' = get_box_from_mask(o[1])
                   /\ masks' = << >> /\ scores' = << >>
                   /\ pc' = "track"
                   /\ UNCHANGED err
    /\ UNCHANGED <<args, image, frame, prompt, all_box, all_mask, all_frame,
                   ref_mask, it, calls, result>>

\* lines 160-165: the tracker call and the start of the result lists
Tracker ==
    /\ pc = "track"
    /\ all_box' \in TrackerOutputs(Len(frame_ps), key_box)
    /\ calls' = Append(calls, Call("tracker", None, key_box, FALSE, frame_ps))
    /\ all_mask' = <<key_mask>>
    /\ all_frame' = <<frame[1]>>
    /\ ref_mask' = key_mask
    /\ it' = 1
    /\ pc' = "loop"
    /\ UNCHANGED <<args, err, image, frame, prompt, masks, scores, key_mask,
                   key_box, selLog, dilLog, made, result>>

\* lines 166-176: the loop takes the next (frame_p, box), loads the frame,
\* converts the box and enters forward_segmentor with the box prompt
LoopLoad ==
    /\ pc = "loop"
    /\ ZipHas(it)
    /\ frame' = Some(frame_ps[it + 1])
    /\ prompt' = Some([points |-> FALSE, box |-> SamBox(all_box[it + 1])])
    /\ calls' = Append(calls, Call("load", frame', NoBox, FALSE, << >>))
    /\ pc' = "set_image"
    /\ UNCHANGED <<args, err, image, masks, scores, key_mask, key_box,
                   all_box, all_mask, all_frame, ref_mask, it, selLog,
                   dilLog, made, result>>

\* lines 177-185: binarization, selection against ref_mask, dilation,
\* new reference, accumulation
PropSelect ==
    /\ pc = "select"
    /\ selLog' = Append(selLog, [frame |-> frame[1], ref |-> ref_mask])
    /\ dilLog' = DilLogAfter(frame[1])
    /\ LET mask == mask_selection(BinarizeAll(masks), scores, ref_mask)
       IN  \E o \in StoredOutcomes(mask, dilate_kernel_size) :
              IF o = None
              THEN /\ pc' = "failed"
                   /\ err' = Some("DilateError")
                   /\ UNCHANGED <<ref_mask, all_mask, all_frame, it, masks,
                                  scores, made>>
              ELSE /\ ref_mask' = NextRef(o[1], ref_mask)
                   /\ made' = Append(made, [frame |-> frame[1], mask |-> o[1]])
                   /\ all_mask' = Accumulate(all_mask, o[1])
                   /\ all_frame' = Accumulate(all_frame, frame[1])
                   /\ it' = it + 1
                   /\ masks' = << >> /\ scores' = << >>
                   /\ pc' = "loop"
                   /\ UNCHANGED err
    /\ UNCHANGED <<args, image, frame, prompt, key_mask, key_box, all_box,
                   calls, result>>

\* line 190: return all_frame, all_mask, all_box
Return ==
    /\ pc = "loop"
    /\ ~ZipHas(it)
    /\ result' = Some(<<all_frame, all_mask, all_box>>)
    /\ pc' = "done"
    /\ UNCHANGED <<args, err, image, frame, prompt, masks, scores, key_mask,
                   key_box, all_box, all_mask, all_frame, ref_mask, it,
                   calls, selLog, dilLog, made>>

Next ==
    \/ AssertFails
    \/ LoadKeyFrame
    \/ SetImage
    \/ Predict
    \/ PredictRaises
    \/ ResetImage
    \/ KeySelectIndexError
    \/ KeySelect
    \/ Tracker
    \/ LoopLoad
    \/ PropSelect
    \/ Return

Spec == Init /\ [][Next]_vars

\* ------------------------------------- mask_selection called on its own
InitSel ==
    /\ pc = "sel_start"
    /\ err = None
    /\ masks \in [CandIdx -> ByteMasks]
    /\ scores \in [CandIdx -> ScoreSet]
    /\ ref_mask \in {None} \cup ByteMasks
    /\ interactive \in BOOLEAN
    /\ selected = None
    /\ frame_ps = << >>
    /\ key_frame_idx = 0
    /\ key_frame_mask_idx = None
    /\ dilate_kernel_size = None
    /\ image = None
    /\ frame = None
    /\ prompt = None
    /\ key_mask = None /\ key_box = NoBox
    /\ all_box = << >> /\ all_mask = << >> /\ all_frame = << >>
    /\ it = 0
    /\ calls = << >> /\ selLog = << >> /\ dilLog = << >> /\ made = << >>
    /\ result = None

\* lines 98-99: raise NotImplementedError
SelInteractive ==
    /\ pc = "sel_start"
    /\ interactive
    /\ pc' = "sel_failed"
    /\ err' = Some("NotImplementedError")
    /\ UNCHANGED <<frame_ps, key_frame_idx, key_frame_mask_idx,
                   dilate_kernel_size, interactive, selected, image, frame,
                   prompt, masks, scores, key_mask, key_box, all_box,
                   all_mask, all_frame, ref_mask, it, calls, selLog, dilLog,
                   made, result>>

\* lines 100-109: return masks[idx]
SelReturn ==
    /\ pc = "sel_start"
    /\ ~interactive
    /\ selected' = Some(mask_selection(masks, scores, ref_mask))
    /\ pc' = "sel_done"
    /\ UNCHANGED <<frame_ps, key_frame_idx, key_frame_mask_idx,
                   dilate_kernel_size, interactive, err, image, frame,
                   prompt, masks, scores, key_mask, key_box, all_box,
                   all_mask, all_frame, ref_mask, it, calls, selLog, dilLog,
                   made, result>>

NextSel ==
    \/ SelInteractive
    \/ SelReturn

SpecSel == InitSel /\ [][NextSel]_vars

TypeOK ==
    /\ pc \in {"start", "set_image", "predict", "reset_image", "key_select",
               "track", "loop", "select", "done", "failed",
               "sel_start", "sel_done", "sel_failed"}
    /\ \A j \in DOMAIN all_mask : all_mask[j] \in [Pixels -> 0..255]

\* ------------------------------------------------------------ properties
Last(list) == list[Len(list)]
SegOps == {"set_image", "predict", "reset_image"}
IsSegCall(c) == c.op \in SegOps
SegCalls == SelectSeq(calls, IsSegCall)
IsBinary(m) == \A p \in DOMAIN m : m[p] \in {0, 255}

\* squared error of a candidate against the reference, pixel by pixel
RECURSIVE SqErrUpTo(_, _, _)
SqErrUpTo(c, r, w) ==
    IF w = 0 THEN 0
    ELSE SqErrUpTo(c, r, w - 1) + (c[w] - r[w]) * (c[w] - r[w])

SqErr(c, r) == SqErrUpTo(c, r, MaskW)

\* the first position of ms whose squared error against r is minimal
FirstMinPos(ms, r) ==
    CHOOSE j \in DOMAIN ms :
        /\ \A k \in DOMAIN ms : SqErr(ms[j], r) <= SqErr(ms[k], r)
        /\ \A k \in DOMAIN ms : k < j => SqErr(ms[k], r) > SqErr(ms[j], r)

\* the first position of sc holding the maximum score
FirstMaxPos(sc) ==
    CHOOSE j \in DOMAIN sc :
        /\ \A k \in DOMAIN sc : sc[k] <= sc[j]
        /\ \A k \in DOMAIN sc : k < j => sc[k] < sc[j]

To255(m) == [p \in DOMAIN m |-> IF m[p] THEN 255 ELSE 0]

\* the masks a frame may end up with when m is the chosen binary mask
KeptFor(m) ==
    IF dilate_kernel_size = None THEN {m}
    ELSE {o[1] : o \in DilateOutcomes(m, dilate_kernel_size[1]) \ {None}}

\* C1: a call of forward with key_frame_idx # 0 ends in the assertion
\* failure and nothing else happens: no frame is loaded, no adapter is
\* called, no mask is selected and nothing is returned.
C1_AssertBeforeAdapters ==
    key_frame_idx # 0 =>
        /\ pc \in {"start", "failed"}
        /\ pc = "failed" => err = Some("AssertionError")
        /\ calls = << >> /\ selLog = << >> /\ dilLog = << >>
        /\ image = None /\ frame = None
        /\ all_frame = << >> /\ all_mask = << >> /\ all_box = << >>
        /\ result = None

C1_Witness ==
    /\ key_frame_idx # 0
    /\ pc = "failed"
    /\ err = Some("AssertionError")

\* C2: a completed run on n frame paths returns n frames, n masks and n
\* boxes; the i-th frame is the one loaded from the i-th path, the i-th mask
\* is the mask made for that frame, and the boxes are the tracker's list for
\* these paths, in order.
C2_ResultInFrameOrder ==
    pc = "done" =>
        /\ result # None
        /\ LET n == Len(frame_ps)
               af == result[1][1]
               am == result[1][2]
               ab == result[1][3]
           IN  /\ Len(af) = n /\ Len(am) = n /\ Len(ab) = n
               /\ Len(made) = n
               /\ \A j \in 1..n :
                     /\ af[j] = frame_ps[j]
                     /\ made[j].frame = frame_ps[j]
                     /\ am[j] = made[j].mask
               /\ \E d \in DriftSet : \A j \in 1..n :
                     ab[j] = Shift(get_box_from_mask(am[1]), d * (j - 1))

C2_Witness ==
    /\ pc = "done"
    /\ Len(frame_ps) = 3
    /\ Len(result[1][2]) = 3
    /\ result[1][2][1] # result[1][2][2]
    /\ result[1][3][1] # result[1][3][2]

\* C3: in the key-frame step, with key_frame_mask_idx given the key mask
\* comes from the candidate at that index and mask_selection is not called;
\* without it the key mask comes from the first candidate of maximum score.
C3_KeyFrameSelection ==
    [][(pc = "key_select" /\ pc' = "track") =>
         /\ key_frame_mask_idx # None =>
               /\ selLog' = selLog
               /\ key_mask' \in KeptFor(To255(
                     masks[IF key_frame_mask_idx[1] >= 0
                           THEN key_frame_mask_idx[1] + 1
                           ELSE NumCand + 1 + key_frame_mask_idx[1]]))
         /\ key_frame_mask_idx = None =>
               /\ selLog' = Append(selLog, [frame |-> 0, ref |-> None])
               /\ key_mask' \in KeptFor(To255(masks[FirstMaxPos(scores)]))
      ]_vars

C3_Witness ==
    /\ pc = "track"
    /\ key_frame_mask_idx = Some(NumCand - 1)
    /\ selLog = << >>
    /\ key_mask # None
    /\ \E p \in Pixels : key_mask[p] = 255

\* C4: mask_selection with a reference returns the first candidate of
\* minimal squared error against the reference, whatever the scores are.
C4_MinErrorFirst ==
    (pc = "sel_done" /\ ref_mask # None) =>
        selected = Some(masks[FirstMinPos(masks, ref_mask)])

C4_Witness ==
    /\ pc = "sel_done"
    /\ ref_mask # None
    /\ selected = Some(masks[1])
    /\ masks[2] # masks[1]
    /\ SqErr(masks[1], ref_mask) = SqErr(masks[2], ref_mask)
    /\ scores[2] > scores[1]

\* C5 as claimed: dilate_mask is applied exactly when dilate_kernel_size is
\* a positive number.
C5_DilationIffPositive ==
    \A k \in DOMAIN made :
        (\E j \in DOMAIN dilLog : dilLog[j] = made[k].frame)
            <=> (dilate_kernel_size # None /\ dilate_kernel_size[1] > 0)

\* C5 as amended: dilate_mask is applied to the selected mask of a frame
\* exactly when dilate_kernel_size is not None; with None every kept mask is
\* a binarized candidate as selected, and 0 or a negative size still reaches
\* dilate_mask.
C5_DilationIffNotNone ==
    /\ \A k \in DOMAIN made :
          (\E j \in DOMAIN dilLog : dilLog[j] = made[k].frame)
              <=> dilate_kernel_size # None
    /\ dilate_kernel_size = None => dilLog = << >>
    /\ (dilate_kernel_size # None /\ pc \in {"track", "loop", "done"})
          => Len(dilLog) = Len(made)
    /\ dilate_kernel_size = None =>
          \A k \in DOMAIN made :
              made[k].mask \in {To255(m) : m \in PaletteBool}

C5_Witness ==
    /\ pc = "done"
    /\ dilate_kernel_size = Some(0)
    /\ Len(made) = 3
    /\ dilLog = <<0, 1, 2>>
    /\ \E k \in DOMAIN made : made[k].mask \notin {To255(m) : m \in PaletteBool}

\* C6: every mask kept for a frame, every mask returned and every reference
\* handed to mask_selection has pixel values 0 or 255 only.
C6_MasksBinary ==
    /\ key_mask # None => IsBinary(key_mask)
    /\ \A j \in DOMAIN all_mask : IsBinary(all_mask[j])
    /\ \A k \in DOMAIN selLog :
          selLog[k].ref # None => IsBinary(selLog[k].ref)
    /\ result # None => \A j \in DOMAIN result[1][2] : IsBinary(result[1][2][j])

C6_Witness ==
    /\ pc = "done"
    /\ Len(all_mask) = 3
    /\ \A j \in 1..3 : \E p \in Pixels : all_mask[j][p] = 255
    /\ Len(selLog) = 3
    /\ selLog[3].ref # None

\* C7 as claimed: whenever control is outside forward_segmentor, also after
\* predict raised, the segmentor holds no image.
C7_ReleasedOnEveryExit ==
    pc \notin {"predict", "reset_image"} => image = None

\* C8: while forward has not failed, the segmentor holds an image only
\* between set_image and reset_image of the current frame, so set_image, the
\* tracker call and the return all happen with no image loaded; the
\* segmentor calls come in triples set_image, predict, reset_image on one
\* frame, the frames of successive triples increasing by one.
C8_OneImageAtATime ==
    pc # "failed" =>
        /\ image # None => (pc \in {"predict", "reset_image"} /\ image = frame)
        /\ pc = "reset_image" => image # None
        /\ \A k \in DOMAIN SegCalls :
              /\ SegCalls[k].op = (CASE k % 3 = 1 -> "set_image"
                                     [] k % 3 = 2 -> "predict"
                                     [] OTHER -> "reset_image")
              /\ SegCalls[k].frame = Some((k - 1) \div 3)
        /\ pc \in {"track", "loop", "done", "key_select", "select"}
              => Len(SegCalls) % 3 = 0
        /\ pc = "done" => Len(SegCalls) = 3 * Len(frame_ps)

C8_Witness ==
    /\ pc = "done"
    /\ Len(frame_ps) = 3
    /\ Len(SegCalls) = 9
    /\ image = None

\* C9: for every frame i > 0 the reference handed to mask_selection is the
\* mask kept for frame i-1, never None, and the mask kept for frame i is the
\* first candidate of minimal squared error against it, after the optional
\* dilation.
C9_Chained ==
    /\ [](\A k \in DOMAIN selLog :
            selLog[k].frame > 0 =>
                /\ selLog[k].ref # None
                /\ Len(all_mask) >= selLog[k].frame
                /\ selLog[k].ref = all_mask[selLog[k].frame])
    /\ [](\A j \in DOMAIN all_mask :
            j > 1 => \E k \in DOMAIN selLog : selLog[k].frame = j - 1)
    /\ [][(pc = "select" /\ pc' = "loop") =>
            /\ Len(all_mask') = Len(all_mask) + 1
            /\ Len(all_mask') = frame[1] + 1
            /\ Last(selLog').ref = Last(all_mask)
            /\ Last(all_mask') \in
                  KeptFor(LET bm == [j \in DOMAIN masks |-> To255(masks[j])]
                          IN  bm[FirstMinPos(bm, Last(all_mask))])
            /\ \A j \in DOMAIN all_mask : all_mask'[j] = all_mask[j]
         ]_vars

C9_Witness ==
    /\ pc = "done"
    /\ Len(all_mask) = 3
    /\ Len(selLog) = 3
    /\ selLog[3].frame = 2
    /\ selLog[3].ref = all_mask[2]
    /\ all_mask[2] # all_mask[1]
    /\ dilate_kernel_size = Some(2)

\* the calls of a completed run, in order
RECURSIVE PropCalls(_, _)
PropCalls(boxes, i) ==
    IF i >= Len(boxes) THEN << >>
    ELSE <<Call("load", Some(i), NoBox, FALSE, << >>),
           Call("set_image", Some(i), NoBox, FALSE, << >>),
           Call("predict", Some(i),
                <<boxes[i + 1][1], boxes[i + 1][2],
                  boxes[i + 1][1] + boxes[i + 1][3],
                  boxes[i + 1][2] + boxes[i + 1][4]>>, FALSE, << >>),
           Call("reset_image", Some(i), NoBox, FALSE, << >>)>>
         \o PropCalls(boxes, i + 1)

ExpectedCalls ==
    <<Call("load", Some(0), NoBox, FALSE, << >>),
      Call("set_image", Some(0), NoBox, FALSE, << >>),
      Call("predict", Some(0), NoBox, TRUE, << >>),
      Call("reset_image", Some(0), NoBox, FALSE, << >>),
      Call("tracker", None, get_box_from_mask(all_mask[1]), FALSE, frame_ps)>>
    \o PropCalls(all_box, 1)

\* C10: in a completed run the key frame is segmented first with the point
\* prompt, then the tracker is called once with all frame paths and the box
\* of the key mask, then frames 1..n-1 are segmented once each in increasing
\* order, each with its tracked box as (x, y, x+w, y+h) and no points.
C10_StageOrder ==
    pc = "done" =>
        /\ Len(all_box) = Len(frame_ps)
        /\ calls = ExpectedCalls

C10_Witness ==
    /\ pc = "done"
    /\ Len(frame_ps) = 3
    /\ Len(calls) = 13
    /\ all_box[3][3] > 0
    /\ all_box[3][1] > 0

====
